---- MODULE Spec2Model ----
(***************************************************************************)
(* Model of src/app.py: the multi-company stock comparison dashboard.      *)
(*                                                                         *)
(* Text is modelled as a sequence of character codes: the digits '0'..'9'  *)
(* are 0..9, letters are codes from 10 on.  A company name and a ticker    *)
(* code are both such sequences, so that "is exactly six digits" and the   *)
(* zero padding of line 15 are computed, not assumed.                      *)
(* Time is in seconds.                                                     *)
(***************************************************************************)
EXTENDS Integers, Sequences, FiniteSets, TLC

VARIABLES
    now,                \* wall clock, seconds
    cache,              \* st.cache_data entry of get_krx_company_list
    fetchLog,           \* history: times of the last two successful network fetches
    call,               \* history: what the last get_stock_code_by_company call did
    pc,                 \* position of the script: "idle", "top" or "collect"
    confirm_btn,        \* line 45, value of the button in the current run
    table_btn,          \* line 166, value of the nested button in the current run
    selected_companies, \* line 30
    selected_dates,     \* line 36, how many dates the date input holds
    idx,                \* loop position of line 66 (1-based)
    price_data,         \* line 60, in insertion order
    failed_companies,   \* line 61
    attempts,           \* history: per visited company, how its iteration ended
    lastRendered,       \* history: companies the last completed query rendered
    ui                  \* what the page shows after the run

vars == <<now, cache, fetchLog, call, pc, confirm_btn, table_btn,
          selected_companies, selected_dates, idx, price_data, failed_companies, attempts,
          lastRendered, ui>>

(***************************************************************************)
(* Bounds                                                                  *)
(***************************************************************************)
MaxTicks == 3

(***************************************************************************)
(* Program constants                                                       *)
(***************************************************************************)
TTL == 60 * 60 * 24
MaxSelections == 3
CodeWidth == 6
SheetNameLen == 30
TailRows == 10

TickSeconds == TTL \div 2

(***************************************************************************)
(* Inputs: company names, the listing endpoint's answers, closing prices   *)
(***************************************************************************)
NameA == <<10>>
NameB == <<11>>
NameC == <<12>>
NameD == <<13>>

\* what pd.read_html can return for the listing page: rows of
\* (company name, ticker code parsed as an integer)
ListingFull == << [name |-> NameA, code |-> 5930],
                  [name |-> NameB, code |-> 660],
                  [name |-> NameC, code |-> 35420] >>
ListingDelisted == << [name |-> NameA, code |-> 5930],
                      [name |-> NameB, code |-> 660] >>
ListingDup == << [name |-> NameA, code |-> 660],
                 [name |-> NameA, code |-> 5930] >>
ListingEmpty == << >>
Listings == {ListingFull, ListingDelisted, ListingDup, ListingEmpty}

\* an answer of the listing endpoint: a table, or an exception
NetOutcomes == {[ok |-> FALSE, rows |-> << >>]}
               \cup {[ok |-> TRUE, rows |-> l] : l \in Listings}

\* identifiers handed to the resolver
Identifiers == {NameA, NameB, NameC, NameD,
                <<0, 0, 5, 9, 3, 0>>, <<0, 0, 0, 6, 6, 0>>,
                <<5, 9, 3, 0>>}

\* the listings the dashboard is run against
AppNetOutcomes == {[ok |-> FALSE, rows |-> << >>],
                   [ok |-> TRUE, rows |-> ListingFull],
                   [ok |-> TRUE, rows |-> ListingDelisted]}

SeqsUpTo(S, n) == UNION {[1..k -> S] : k \in 0..n}

\* Close columns (KRW) of the frames fdr.DataReader returns: no trading day
\* in range, one day, a rise of 0.0033 %, and three days ending 9.9963 % up
\* from another first close
Frames == { << >>, <<30000>>, <<30000, 30001>>, <<30001, 30000, 33000>> }

\* an answer of fdr.DataReader: an exception, or a frame
FeedOutcomes == {[ok |-> FALSE, Close |-> << >>]}
                \cup {[ok |-> TRUE, Close |-> s] : s \in Frames}

(***************************************************************************)
(* Text helpers                                                            *)
(***************************************************************************)
RECURSIVE Digits(_)
Digits(x) == IF x < 10 THEN <<x>> ELSE Digits(x \div 10) \o <<x % 10>>

RECURSIVE PadLeft(_, _)
PadLeft(s, w) == IF Len(s) >= w THEN s ELSE PadLeft(<<0>> \o s, w)

\* line 15: f"{x:06}"
Format06(x) == PadLeft(Digits(x), CodeWidth)

\* company[:30]
Prefix(s, n) == SubSeq(s, 1, IF Len(s) < n THEN Len(s) ELSE n)

(***************************************************************************)
(* The cached directory, lines 10-16                                       *)
(***************************************************************************)
NoCache == [has |-> FALSE, at |-> 0, value |-> << >>]

\* lines 13-15: keep the two columns, zero-pad the code
ParseListing(rows) ==
    [i \in 1..Len(rows) |-> [name |-> rows[i].name, code |-> Format06(rows[i].code)]]

CacheHitNever(c, t) == FALSE

\* line 10: an entry is served while it is younger than the TTL
CacheHit(c, t) == c.has /\ t - c.at < TTL

\* get_krx_company_list() under st.cache_data: the stored frame on a hit,
\* otherwise one network fetch whose result is stored; an exception of the
\* fetch propagates and stores nothing
get_krx_company_list(net) ==
    IF CacheHit(cache, now)
    THEN [ok |-> TRUE, df |-> cache.value, cache |-> cache, fetched |-> FALSE]
    ELSE IF ~net.ok
         THEN [ok |-> FALSE, df |-> << >>, cache |-> NoCache, fetched |-> FALSE]
         ELSE [ok |-> TRUE, df |-> ParseListing(net.rows),
               cache |-> [has |-> TRUE, at |-> now, value |-> ParseListing(net.rows)],
               fetched |-> TRUE]

NoFetch == [prev |-> -1, last |-> -1]

\* history of successful network fetches, kept by every caller of the list
FetchHistory(g) ==
    IF g.fetched THEN [prev |-> fetchLog.last, last |-> now] ELSE fetchLog

ColumnNames(df) == {df[i].name : i \in 1..Len(df)}

(***************************************************************************)
(* The resolver, lines 19-24                                               *)
(***************************************************************************)
MatchLast(result) == result[Len(result)]

\* line 24: result.iloc[0]
MatchFirst(result) == result[1]

\* lines 21-24 on a directory frame
LookupCode(df, company_name) ==
    LET result == SelectSeq(df, LAMBDA e : e.name = company_name)
    IN  IF Len(result) = 0
        THEN [status |-> "not_found", code |-> << >>]
        ELSE [status |-> "ok", code |-> MatchFirst(result).code]

\* get_stock_code_by_company(company_name): line 20 always asks for the list
get_stock_code_by_company(company_name, net) ==
    LET g == get_krx_company_list(net)
        r == IF g.ok THEN LookupCode(g.df, company_name)
                     ELSE [status |-> "fetch_error", code |-> << >>]
    IN  [status |-> r.status, code |-> r.code, g |-> g,
         call |-> [made |-> TRUE, id |-> company_name, status |-> r.status,
                   code |-> r.code, consulted |-> TRUE, df |-> g.df]]

NoCall == [made |-> FALSE, id |-> << >>, status |-> "none", code |-> << >>,
           consulted |-> FALSE, df |-> << >>]
(***************************************************************************)
(* Arithmetic of lines 97-98 and 123-129                                   *)
(***************************************************************************)
BaseLast(Close) == Close[Len(Close)]

\* line 97: df["Close"].iloc[0]
Base(Close) == Close[1]

\* line 98: Close / base * 100, kept as the exact fraction num/den
Normalized(Close) ==
    [i \in 1..Len(Close) |-> [num |-> Close[i] * 100, den |-> Base(Close)]]

\* n/d rounded to the nearest integer, ties to even (d > 0)
RoundHalfEven(n, d) ==
    LET q == n \div d
        r == n % d
    IN  IF 2 * r < d THEN q
        ELSE IF 2 * r > d THEN q + 1
        ELSE IF q % 2 = 0 THEN q ELSE q + 1

\* lines 123 and 129: round((last / first - 1) * 100, 2), in hundredths of a percent
RoundedReturn(Close) ==
    RoundHalfEven(10000 * (Close[Len(Close)] - Close[1]), Close[1])

\* lines 122-131: one row per entry of price_data, in its order
ReturnRows(pd) ==
    [i \in 1..Len(pd) |-> [company |-> pd[i].company,
                           start |-> pd[i].Close[1],
                           end |-> pd[i].Close[Len(pd[i].Close)],
                           ret |-> RoundedReturn(pd[i].Close)]]

RECURSIVE InsertDesc(_, _)
InsertDesc(s, r) ==
    IF Len(s) = 0 THEN <<r>>
    ELSE IF Head(s).ret >= r.ret THEN <<Head(s)>> \o InsertDesc(Tail(s), r)
    ELSE <<r>> \o s

RECURSIVE SortDesc(_)
SortDesc(rows) ==
    IF Len(rows) = 0 THEN << >>
    ELSE InsertDesc(SortDesc(SubSeq(rows, 1, Len(rows) - 1)), rows[Len(rows)])

SortedAsInserted(rows) == rows

\* line 134: sort_values("수익률(%)", ascending=False); rows with equal keys
\* keep their order (what the sort does on a frame this small)
SortByReturn(rows) == SortDesc(rows)

Tail10(s) == SubSeq(s, IF Len(s) > TailRows THEN Len(s) - TailRows + 1 ELSE 1, Len(s))
(***************************************************************************)
(* The page                                                                *)
(***************************************************************************)
BlankUi == [sidebar |-> FALSE,       \* lines 26-45 drew the input widgets
            warning |-> "none",      \* lines 50, 54
            failed_warning |-> << >>,\* lines 82-85
            error |-> "none",        \* "no_data" (line 88) or "generic" (line 186)
            uncaught |-> FALSE,      \* an exception left the script
            stopped |-> FALSE,       \* st.stop()
            norm_chart |-> << >>,    \* line 116
            return_table |-> << >>,  \* lines 133-136
            candles |-> << >>,       \* line 163
            table_btn_shown |-> FALSE,  \* line 166
            tables |-> << >>,        \* lines 169-170
            download |-> << >>]      \* lines 173-183, sheet names

Companies(pd) == [i \in 1..Len(pd) |-> pd[i].company]

SeqToSet(s) == {s[i] : i \in 1..Len(s)}

\* the values a multiselect over the directory's names can hold (line 30-34)
Selections(df) ==
    {s \in SeqsUpTo(ColumnNames(df), MaxSelections) :
        \A i, j \in 1..Len(s) : i # j => s[i] # s[j]}

InputsAcceptedAnyDates(sel, ndates) == Len(sel) > 0

\* lines 49-55: at least one company and exactly two dates
InputsAccepted(sel, ndates) == Len(sel) > 0 /\ ndates = 2

\* the message of lines 50 or 54
InputWarning(sel, ndates) ==
    IF Len(sel) = 0 THEN "no_company" ELSE IF ndates # 2 THEN "no_dates" ELSE "none"

LoopBodyDropEmpty(company, resolved, feed) ==
    IF resolved.status = "ok" /\ feed.ok /\ Len(feed.Close) > 0
    THEN [price_data |-> Append(price_data, [company |-> company, Close |-> feed.Close,
                                             Normalized |-> << >>]),
          failed_companies |-> failed_companies, kind |-> "ok"]
    ELSE IF resolved.status = "ok" /\ feed.ok
    THEN [price_data |-> price_data, failed_companies |-> failed_companies,
          kind |-> "empty"]
    ELSE [price_data |-> price_data,
          failed_companies |-> Append(failed_companies, company),
          kind |-> IF resolved.status # "ok" THEN "resolver_error" ELSE "fetch_exception"]

\* lines 67-79, one iteration: the resolver or the fetch raising (line 78), an
\* empty frame (line 71), or a frame stored in price_data (line 76)
LoopBody(company, resolved, feed) ==
    IF resolved.status # "ok"
    THEN [price_data |-> price_data,
          failed_companies |-> Append(failed_companies, company),
          kind |-> "resolver_error"]
    ELSE IF ~feed.ok
    THEN [price_data |-> price_data,
          failed_companies |-> Append(failed_companies, company),
          kind |-> "fetch_exception"]
    ELSE IF Len(feed.Close) = 0
    THEN [price_data |-> price_data,
          failed_companies |-> Append(failed_companies, company),
          kind |-> "empty"]
    ELSE [price_data |-> Append(price_data, [company |-> company, Close |-> feed.Close,
                                             Normalized |-> << >>]),
          failed_companies |-> failed_companies,
          kind |-> "ok"]

\* line 66: the for loop goes on to the next company, whatever the body did
NextIndex(i) == i + 1

NoDataIfAnyFailed(pd) == Len(failed_companies) > 0

\* line 87: not price_data
NoData(pd) == Len(pd) = 0

\* lines 96-98: every frame of price_data gets its Normalized column
Normalize(pd) ==
    [i \in 1..Len(pd) |-> [pd[i] EXCEPT !.Normalized = Normalized(pd[i].Close)]]

\* where an exception of the rendering libraries is raised, if anywhere
Faults == {"none", "chart", "table", "candle", "excel"}

\* the statement that raises: 1 line 116, 2 line 133, 3 line 163, 4 lines 174-176,
\* 5 none (the candle charts are drawn only when the checkbox is set)
FaultStage(fault, show_candle) ==
    CASE fault = "chart" -> 1
      [] fault = "table" -> 2
      [] fault = "candle" /\ show_candle -> 3
      [] fault = "excel" -> 4
      [] OTHER -> 5

\* lines 91-186 on a non-empty price_data: what is on the page when the
\* statement of stage `stage` raises (5: nothing raises)
Rendered(pd, show_candle, stage, failed) ==
    [BlankUi EXCEPT
        !.sidebar = TRUE,
        !.failed_warning = failed,
        !.norm_chart = IF stage > 1
                       THEN [i \in 1..Len(pd) |-> [company |-> pd[i].company,
                                                   y |-> pd[i].Normalized]]
                       ELSE << >>,
        !.return_table = IF stage > 2 THEN SortByReturn(ReturnRows(pd)) ELSE << >>,
        !.candles = IF stage > 3 /\ show_candle THEN Companies(pd) ELSE << >>,
        !.table_btn_shown = stage > 3,
        !.tables = IF stage > 3 /\ table_btn
                   THEN [i \in 1..Len(pd) |-> [company |-> pd[i].company,
                                               full |-> pd[i].Close,
                                               tail |-> Tail10(pd[i].Close)]]
                   ELSE << >>,
        !.download = IF stage > 4
                     THEN [i \in 1..Len(pd) |-> Prefix(pd[i].company, SheetNameLen)]
                     ELSE << >>,
        !.error = IF stage < 5 THEN "generic" ELSE "none"]

(***************************************************************************)
(* Initial state: the server is up, no page was served yet                 *)
(***************************************************************************)
Init ==
    /\ now = 0
    /\ cache = NoCache
    /\ fetchLog = NoFetch
    /\ call = NoCall
    /\ pc = "idle"
    /\ confirm_btn = FALSE
    /\ table_btn = FALSE
    /\ selected_companies = << >>
    /\ selected_dates = 2
    /\ idx = 1
    /\ price_data = << >>
    /\ failed_companies = << >>
    /\ attempts = << >>
    /\ lastRendered = << >>
    /\ ui = BlankUi

(***************************************************************************)
(* Actions                                                                 *)
(***************************************************************************)
\* time passes
Tick ==
    /\ now < MaxTicks * TickSeconds
    /\ now' = now + TickSeconds
    /\ UNCHANGED <<cache, fetchLog, call, pc, confirm_btn, table_btn,
                   selected_companies, selected_dates, idx, price_data, failed_companies,
                   attempts, lastRendered, ui>>

\* An interaction starts a run of the script: "rerun" (the page is opened or an
\* input widget changed), "confirm" (line 45 was clicked) or "table" (line 166
\* was clicked).  A button is True only in the run its click causes; the run
\* starts from fresh globals and redraws the page.
Interact(trigger) ==
    /\ pc = "idle"
    /\ trigger = "confirm" => ui.sidebar
    /\ trigger = "table" => ui.table_btn_shown
    /\ pc' = "top"
    /\ confirm_btn' = (trigger = "confirm")
    /\ table_btn' = (trigger = "table")
    /\ selected_companies' = << >>
    /\ selected_dates' = 2
    /\ price_data' = << >>
    /\ failed_companies' = << >>
    /\ attempts' = << >>
    /\ idx' = 1
    /\ call' = NoCall
    /\ lastRendered' = IF trigger = "table" THEN lastRendered ELSE << >>
    /\ ui' = BlankUi
    /\ UNCHANGED <<now, cache, fetchLog>>

\* The top of the script, lines 26-61: the directory for the multiselect, the
\* widgets, and under the confirm button the validation of the inputs.  sel and
\* ndates are what the multiselect and the date input hold.
Top(sel, ndates, net) ==
    /\ pc = "top"
    /\ LET g == get_krx_company_list(net)
       IN  /\ cache' = g.cache
           /\ fetchLog' = FetchHistory(g)
           /\ IF ~g.ok
              THEN \* line 28 raises outside any try
                   /\ sel = << >> /\ ndates = 2
                   /\ ui' = [BlankUi EXCEPT !.uncaught = TRUE]
                   /\ UNCHANGED <<selected_companies, selected_dates>>
                   /\ pc' = "idle"
              ELSE /\ sel \in Selections(g.df)
                   /\ selected_companies' = sel
                   /\ selected_dates' = ndates
                   /\ IF ~confirm_btn
                      THEN \* line 48 is False: only the sidebar is drawn
                           /\ ui' = [BlankUi EXCEPT !.sidebar = TRUE]
                           /\ pc' = "idle"
                      ELSE IF InputsAccepted(sel, ndates)
                      THEN /\ ui' = [BlankUi EXCEPT !.sidebar = TRUE]
                           /\ pc' = "collect"
                      ELSE /\ ui' = [BlankUi EXCEPT !.sidebar = TRUE,
                                        !.warning = InputWarning(sel, ndates),
                                        !.stopped = TRUE]
                           /\ pc' = "idle"
    /\ UNCHANGED <<now, call, confirm_btn, table_btn, idx, price_data,
                   failed_companies, attempts, lastRendered>>

\* One iteration of the loop of line 66, lines 67-79.
Collect(net, feed) ==
    /\ pc = "collect"
    /\ idx <= Len(selected_companies)
    /\ LET company == selected_companies[idx]
           resolved == get_stock_code_by_company(company, net)
           body == LoopBody(company, resolved, feed)
       IN  /\ cache' = resolved.g.cache
           /\ fetchLog' = FetchHistory(resolved.g)
           /\ call' = resolved.call
           /\ price_data' = body.price_data
           /\ failed_companies' = body.failed_companies
           /\ attempts' = Append(attempts, [company |-> company, kind |-> body.kind])
    /\ idx' = NextIndex(idx)
    /\ UNCHANGED <<now, pc, confirm_btn, table_btn, selected_companies,
                   selected_dates, lastRendered, ui>>

\* The rest of the run once the loop is over, lines 81-186.
Present(show_candle, fault) ==
    /\ pc = "collect"
    /\ idx > Len(selected_companies)
    /\ pc' = "idle"
    /\ IF NoData(price_data)
       THEN \* lines 87-89; st.stop() is not an Exception, line 185 lets it pass
            /\ ui' = [ui EXCEPT !.failed_warning = failed_companies,
                                !.error = "no_data", !.stopped = TRUE]
            /\ UNCHANGED <<price_data, lastRendered>>
       ELSE /\ price_data' = Normalize(price_data)
            /\ ui' = Rendered(price_data', show_candle,
                              FaultStage(fault, show_candle), failed_companies)
            /\ lastRendered' = IF ui'.table_btn_shown THEN Companies(price_data)
                               ELSE << >>
    /\ UNCHANGED <<now, cache, fetchLog, call, confirm_btn, table_btn,
                   selected_companies, selected_dates, idx, failed_companies,
                   attempts>>

\* a direct call of the resolver with any identifier
ResolverCall(id, net) ==
    /\ pc = "idle"
    /\ LET resolved == get_stock_code_by_company(id, net)
       IN  /\ cache' = resolved.g.cache
           /\ fetchLog' = FetchHistory(resolved.g)
           /\ call' = resolved.call
    /\ UNCHANGED <<now, pc, confirm_btn, table_btn, selected_companies,
                   selected_dates, idx, price_data, failed_companies, attempts,
                   lastRendered, ui>>

Triggers == {"rerun", "confirm", "table"}

\* the names any listing carries
AllNames == {NameA, NameB, NameC}

\* the answer of the listing endpoint, drawn only when it is asked
Answers(outcomes) ==
    IF CacheHit(cache, now) THEN {[ok |-> FALSE, rows |-> << >>]} ELSE outcomes

Next ==
    \/ Tick
    \/ \E trigger \in Triggers : Interact(trigger)
    \/ \E sel \in SeqsUpTo(AllNames, MaxSelections), ndates \in 0..2,
          net \in Answers(AppNetOutcomes) :
          Top(sel, ndates, net)
    \/ \E net \in Answers(AppNetOutcomes), feed \in FeedOutcomes : Collect(net, feed)
    \/ \E show_candle \in BOOLEAN, fault \in Faults : Present(show_candle, fault)

Spec == Init /\ [][Next]_vars

\* the resolver on its own, called with arbitrary identifiers
NextResolver ==
    \/ Tick
    \/ \E id \in Identifiers, net \in Answers(NetOutcomes) : ResolverCall(id, net)

SpecResolver == Init /\ [][NextResolver]_vars
(***************************************************************************)
(* Properties                                                              *)
(***************************************************************************)
\* a confirmed query whose inputs passed lines 49-55 has run to its end
QueryDone ==
    pc = "idle" /\ confirm_btn /\ ~ui.uncaught /\ ui.warning = "none"

PriceCompanies == SeqToSet(Companies(price_data))

FailedCompanies == SeqToSet(failed_companies)

NothingRendered ==
    /\ ui.norm_chart = << >>
    /\ ui.return_table = << >>
    /\ ui.candles = << >>
    /\ ui.tables = << >>
    /\ ui.download = << >>
    /\ ~ui.table_btn_shown

\* C1: the collection loop visits the selected companies one by one in order,
\* whatever happened to the companies before; when the loop is over it has
\* visited every selected company, and each visited company is in exactly
\* one of price_data (its fetch gave a non-empty frame) and failed_companies
\* (every other outcome).
C1_EveryCompanyCollected ==
    /\ pc = "collect" => Len(attempts) = idx - 1 /\ idx <= Len(selected_companies) + 1
    /\ QueryDone => Len(attempts) = Len(selected_companies)
    /\ Len(attempts) <= Len(selected_companies)
    /\ PriceCompanies \cup FailedCompanies = {attempts[i].company : i \in 1..Len(attempts)}
    /\ Len(price_data) + Len(failed_companies) = Len(attempts)
    /\ \A i \in 1..Len(attempts) :
          /\ attempts[i].company = selected_companies[i]
          /\ (attempts[i].company \in PriceCompanies)
                # (attempts[i].company \in FailedCompanies)
          /\ (attempts[i].company \in PriceCompanies) <=> (attempts[i].kind = "ok")

\* C1 witness: three companies were selected, the first failed in the resolver,
\* the second came back empty, the third was fetched, and the loop is over.
C1_Witness ==
    /\ QueryDone
    /\ Len(attempts) = 3
    /\ attempts[1].kind = "resolver_error"
    /\ attempts[2].kind = "empty"
    /\ attempts[3].kind = "ok"

NoneFetched == \A i \in 1..Len(attempts) : attempts[i].kind # "ok"

\* C2: a query that went through the loop halts with the no-data error, before
\* anything is charted, tabulated or exported, exactly when no selected company
\* gave a non-empty frame; when at least one did, the run is not stopped and
\* goes on to rendering (everything is rendered unless rendering itself raises).
C2_HaltIffNoneFetched ==
    QueryDone =>
        /\ (ui.error = "no_data") <=> NoneFetched
        /\ ui.stopped <=> NoneFetched
        /\ NoneFetched => NothingRendered
        /\ ~NoneFetched =>
              /\ ui.error \in {"none", "generic"}
              /\ ui.error = "none" =>
                    /\ Len(ui.norm_chart) = Len(price_data)
                    /\ Len(ui.return_table) = Len(price_data)
                    /\ Len(ui.download) = Len(price_data)

\* C2 witness: all three selected companies failed, each in another way, and
\* the run halted with the no-data error.
C2_Witness ==
    /\ QueryDone
    /\ Len(attempts) = 3
    /\ {attempts[i].kind : i \in 1..3} = {"resolver_error", "fetch_exception", "empty"}
    /\ ui.error = "no_data"

IsDigit(c) == c \in 0..9

IsSixDigits(s) == Len(s) = CodeWidth /\ \A i \in 1..Len(s) : IsDigit(s[i])

\* C3: for an identifier of exactly six digits the resolver returns the
\* identifier itself and does not consult the directory (stated for the calls
\* in which no network failure interferes).
C3_SixDigitsReturnedUnchanged ==
    (call.made /\ IsSixDigits(call.id) /\ call.status # "fetch_error") =>
        /\ call.status = "ok"
        /\ call.code = call.id
        /\ ~call.consulted

MatchingRows(df, id) == {i \in 1..Len(df) : df[i].name = id}

\* C4: for an identifier that is not a six-digit code, on the directory the
\* resolver obtained (empty or not): with no row whose name equals the
\* identifier it fails with not-found and returns no code, otherwise it returns
\* the six-digit code of the first such row.
C4_NotFoundOrFirstMatch ==
    (call.made /\ ~IsSixDigits(call.id) /\ call.status # "fetch_error") =>
        LET m == MatchingRows(call.df, call.id)
        IN  IF m = {}
            THEN call.status = "not_found" /\ call.code = << >>
            ELSE /\ call.status = "ok"
                 /\ \E i \in m : /\ \A j \in m : i <= j
                                 /\ call.code = call.df[i].code
                 /\ IsSixDigits(call.code)

\* C4 witness: a name carried by two rows with different codes was resolved.
C4_Witness ==
    /\ call.made
    /\ ~IsSixDigits(call.id)
    /\ call.status = "ok"
    /\ \E i, j \in MatchingRows(call.df, call.id) : call.df[i].code # call.df[j].code

InputsInvalid == Len(selected_companies) = 0 \/ selected_dates # 2

\* C6: a confirmed run with no company selected, or without exactly two dates,
\* shows a warning and stops: the loop is never entered, no resolver call and no
\* price fetch is made, nothing is rendered or exported.
C6_InvalidInputStops ==
    (confirm_btn /\ pc # "top" /\ ~ui.uncaught /\ InputsInvalid) =>
        /\ pc = "idle"
        /\ ui.warning # "none"
        /\ ui.stopped
        /\ ui.error = "none"
        /\ attempts = << >>
        /\ ~call.made
        /\ price_data = << >> /\ failed_companies = << >>
        /\ NothingRendered

\* C6 witness: two companies are selected but the date input holds one date,
\* and the confirmed run has ended.
C6_Witness ==
    /\ confirm_btn /\ pc = "idle" /\ ~ui.uncaught
    /\ Len(selected_companies) = 2
    /\ selected_dates = 1
    /\ ui.warning = "no_dates"

\* C7: once a query gets past the no-data check every frame of price_data is
\* normalized, and a normalized frame has the value 100 at its first date,
\* its own first close being the base of every value of the frame.
C7_NormalizedStartsAt100 ==
    /\ (QueryDone /\ ~NoneFetched) =>
          \A i \in 1..Len(price_data) : price_data[i].Normalized # << >>
    /\ \A i \in 1..Len(price_data) :
          LET e == price_data[i]
          IN  e.Normalized # << >> =>
                 /\ Len(e.Normalized) = Len(e.Close)
                 /\ e.Normalized[1].den # 0
                 /\ e.Normalized[1].num = 100 * e.Normalized[1].den
                 /\ \A j \in 1..Len(e.Normalized) : e.Normalized[j].den = e.Close[1]
    /\ \A i \in 1..Len(ui.norm_chart) :
          /\ ui.norm_chart[i].y = price_data[i].Normalized
          /\ ui.norm_chart[i].y[1].num = 100 * ui.norm_chart[i].y[1].den

\* C7 witness: two frames with different first closes, one of them three days
\* long and ending away from its first close, were normalized and charted.
C7_Witness ==
    /\ QueryDone
    /\ Len(ui.norm_chart) >= 2
    /\ price_data[1].Close[1] # price_data[2].Close[1]
    /\ \E i \in 1..Len(price_data) :
          /\ Len(price_data[i].Close) = 3
          /\ price_data[i].Close[3] # price_data[i].Close[1]

\* C8: the run caused by pressing the per-company table button, after a query
\* was rendered, ends with each fetched company's table on the page.
C8_TableButtonShowsTables ==
    (pc = "idle" /\ table_btn /\ ~ui.uncaught) =>
        [i \in 1..Len(ui.tables) |-> ui.tables[i].company] = lastRendered

\* C9: a run triggered by the confirm button never ends with an exception
\* leaving the script (every exception, a failure of the directory fetch
\* included, ends in the generic error message), and a run that was stopped
\* deliberately does not show the generic error.
C9_NoExceptionEscapes ==
    (confirm_btn /\ pc = "idle") =>
        /\ ~ui.uncaught
        /\ ui.stopped => ui.error # "generic"

RowCompanies == [i \in 1..Len(ui.return_table) |-> ui.return_table[i].company]

OneRowPerFetchedCompany ==
    /\ Len(ui.return_table) = Len(price_data)
    /\ SeqToSet(RowCompanies) = PriceCompanies
    /\ SeqToSet(RowCompanies) \cap FailedCompanies = {}
    /\ \A i \in 1..Len(ui.return_table) :
          \E k \in 1..Len(price_data) :
             /\ price_data[k].company = ui.return_table[i].company
             /\ ui.return_table[i].start = price_data[k].Close[1]
             /\ ui.return_table[i].end = price_data[k].Close[Len(price_data[k].Close)]
             /\ ui.return_table[i].ret = RoundedReturn(price_data[k].Close)

\* C10 as claimed: the return table has one row per fetched company, none for a
\* failed one, and the rows are in non-increasing order of the return
\* (end / start - 1) * 100 (compared exactly: end_i * start_j >= end_j * start_i).
C10_OrderedByExactReturn ==
    ui.return_table # << >> =>
        /\ OneRowPerFetchedCompany
        /\ \A i, j \in 1..Len(ui.return_table) :
              i < j => ui.return_table[i].end * ui.return_table[j].start
                          >= ui.return_table[j].end * ui.return_table[i].start

\* C10 as amended: the return table has one row per fetched company, none for
\* a failed one, and the rows are in non-increasing order of the return rounded
\* to two decimals, the value the table shows.
C10_OrderedByRoundedReturn ==
    /\ (QueryDone /\ ui.error = "none" /\ ~NoneFetched) => ui.return_table # << >>
    /\ ui.return_table # << >> =>
          /\ OneRowPerFetchedCompany
          /\ \A i, j \in 1..Len(ui.return_table) :
                i < j => ui.return_table[i].ret >= ui.return_table[j].ret

\* C10 witness: of three selected companies one failed and two are in the
\* table, the one selected later first, because its rounded return is higher.
C10_Witness ==
    /\ QueryDone
    /\ Len(ui.return_table) = 2
    /\ Len(failed_companies) = 1
    /\ RowCompanies # Companies(price_data)
    /\ ui.return_table[1].ret > ui.return_table[2].ret
====
